---- MODULE Spec2Model ----
(***************************************************************************)
(* Byte-buffer arithmetic kernel of the Eidolon Math Library.              *)
(*                                                                         *)
(* A value of type T is modelled by its memory image: a function from the  *)
(* byte index 0..size-1 to a byte, least significant byte first (the       *)
(* layout `transmute` exposes on a little-endian target).  The 64-byte     *)
(* scratch buffers of the source are modelled on the indices below `size`, *)
(* the only ones a call may touch; an access outside that range is an      *)
(* evaluation error of the model.                                          *)
(*                                                                         *)
(* One kernel call is one behaviour: Init is a pending call (operation,    *)
(* width, operands), and the action of the operation runs the function     *)
(* body and stores what it returns.  The stepwise specifications run the   *)
(* same calls one loop iteration at a time, in the call frames `frames`.   *)
(***************************************************************************)
EXTENDS Integers, Sequences, FiniteSets

VARIABLES op, size, a, b, n, pc, result, panicked, frames

vars == <<op, size, a, b, n, pc, result, panicked, frames>>

----------------------------------------------------------------------------
(* Bounds of the model *)

\* number of sample byte values the operand bytes are drawn from
NumByteVals == 5

\* shift and rotate amounts are drawn from 0..MaxAmount
MaxAmount == 20

\* amounts far above every bit width: multiples of 64, the largest u16 and
\* the largest amount the model's integers hold
LargeAmounts == {64, 128, 65535, 2147483647}

\* sample byte values, in the order in which NumByteVals admits them
ByteSamples == <<0, 1, 255, 128, 18, 52, 15, 3>>

ByteVals == {ByteSamples[k] : k \in 1..NumByteVals}

\* widths (in bytes) whose values and products are compared with integer
\* arithmetic: u8 and u16
Sizes == {1, 2}

\* widths the division and modulo calls are made at: u8, u16, u32, u64
DivSizes == {1, 2, 4, 8}

\* widths the counting calls are made at: u8, u16, u32, u64
CountSizes == {1, 2, 4, 8}

\* widths the logic calls are made at: u8, u16, u32
LogicSizes == {1, 2, 4}

\* every 8-bit value
AllBytes == [0..0 -> 0..255]

\* bytes 2 and 3 of the operands of the widths above 16 bits; bytes 4..7 of
\* a 64-bit operand are zero, so every operand is below 2^31
UpperParts == {<<0, 0>>, <<255, 127>>}

Operands(sz) ==
    { [i \in 0..(sz - 1) |->
          IF i < 2 THEN low[i] ELSE IF i < 4 THEN high[i - 1] ELSE 0] :
        low \in [0..1 -> ByteVals], high \in UpperParts }

----------------------------------------------------------------------------
(* Interpretation of a byte image as an unsigned integer *)

RECURSIVE ValFrom(_, _, _)
ValFrom(bytes, sz, i) ==
    IF i >= sz THEN 0 ELSE bytes[i] + 256 * ValFrom(bytes, sz, i + 1)

\* sum of bytes[i] * 256^i
Val(bytes, sz) == ValFrom(bytes, sz, 0)

\* 2^(8 * sz)
Modulus(sz) == 256 ^ sz

----------------------------------------------------------------------------
(* Buffers *)

\* [0u8; 64], on the indices a call of width sz uses
zero_bytes(sz) == [i \in 0..(sz - 1) |-> 0]

\* T::default() of the numeric types: the all-zero value
default_value(sz) == [i \in 0..(sz - 1) |-> 0]

----------------------------------------------------------------------------
(* ebm_add *)

RECURSIVE ebm_add_loop_nocarry(_, _, _, _, _, _)
ebm_add_loop_nocarry(sz, a_bytes, b_bytes, i, carry, result_bytes) ==
    IF i >= sz THEN result_bytes
    ELSE LET sum == a_bytes[i] + b_bytes[i] + carry
         IN  ebm_add_loop_nocarry(sz, a_bytes, b_bytes, i + 1, 0,
                 [result_bytes EXCEPT ![i] = sum % 256])

\* the byte loop: sum = a_byte + b_byte + carry in u16 (at most 511),
\* result byte = sum & 0xFF, carry = (sum >> 8) & 1
RECURSIVE ebm_add_loop(_, _, _, _, _, _)
ebm_add_loop(sz, a_bytes, b_bytes, i, carry, result_bytes) ==
    IF i >= sz THEN result_bytes
    ELSE LET sum == a_bytes[i] + b_bytes[i] + carry
         IN  ebm_add_loop(sz, a_bytes, b_bytes, i + 1, (sum \div 256) % 2,
                 [result_bytes EXCEPT ![i] = sum % 256])

ebm_add(sz, x, y) == ebm_add_loop(sz, x, y, 0, 0, zero_bytes(sz))

----------------------------------------------------------------------------
(* ebm_sub *)

\* (d & 0xFF) of the two's-complement i16 d
i16_low_byte(d) == (IF d < 0 THEN d + 65536 ELSE d) % 256

RECURSIVE ebm_sub_loop_noborrow(_, _, _, _, _, _)
ebm_sub_loop_noborrow(sz, a_bytes, b_bytes, i, borrow, result_bytes) ==
    IF i >= sz THEN result_bytes
    ELSE LET diff == a_bytes[i] - b_bytes[i] - borrow
         IN  ebm_sub_loop_noborrow(sz, a_bytes, b_bytes, i + 1, 0,
                 [result_bytes EXCEPT ![i] = i16_low_byte(diff)])

\* the byte loop: diff = a_byte - b_byte - borrow in i16,
\* result byte = diff & 0xFF, borrow = 1 if diff < 0
RECURSIVE ebm_sub_loop(_, _, _, _, _, _)
ebm_sub_loop(sz, a_bytes, b_bytes, i, borrow, result_bytes) ==
    IF i >= sz THEN result_bytes
    ELSE LET diff == a_bytes[i] - b_bytes[i] - borrow
         IN  ebm_sub_loop(sz, a_bytes, b_bytes, i + 1,
                 IF diff < 0 THEN 1 ELSE 0,
                 [result_bytes EXCEPT ![i] = i16_low_byte(diff)])

ebm_sub(sz, x, y) == ebm_sub_loop(sz, x, y, 0, 0, zero_bytes(sz))

----------------------------------------------------------------------------
(* ebm_mul *)

\* let mut partial_products = [0u32; 128]
PartialProductSlots == 128

\* the carry is dropped after the slot the product was added to
ebm_mul_cascade_dropped(partial_products, carry, pos) == partial_products

\* while carry > 0 && pos < 128 { current = partial_products[pos] + carry;
\*   partial_products[pos] = current & 0xFF; carry = current >> 8; pos += 1 }
RECURSIVE ebm_mul_cascade(_, _, _)
ebm_mul_cascade(partial_products, carry, pos) ==
    IF carry > 0 /\ pos < PartialProductSlots
    THEN LET current == partial_products[pos] + carry
         IN  ebm_mul_cascade(
                 [partial_products EXCEPT ![pos] = current % 256],
                 current \div 256, pos + 1)
    ELSE partial_products

\* the product of the pair (i, j) is added at slot i in place of slot i + j
ebm_mul_pair_slot_i(partial_products, a_bytes, b_bytes, i, j) ==
    LET product  == a_bytes[i] * b_bytes[j]
        position == i
        current  == partial_products[position] + product
    IN  ebm_mul_cascade(
            [partial_products EXCEPT ![position] = current % 256],
            current \div 256, position + 1)

\* the body of the inner loop for the byte pair (i, j); the u32 sums stay
\* below 2^17, so no u32 operation wraps
ebm_mul_pair(partial_products, a_bytes, b_bytes, i, j) ==
    LET product  == a_bytes[i] * b_bytes[j]
        position == i + j
        current  == partial_products[position] + product
    IN  ebm_mul_cascade(
            [partial_products EXCEPT ![position] = current % 256],
            current \div 256, position + 1)

\* `value`, once `earlier` has been computed: statements run in program
\* order, while operator arguments are evaluated on demand
After(earlier, value) == IF earlier = earlier THEN value ELSE value

\* for i in 0..size { for j in 0..size { ... } }: the loop visits the pair
\* (i, j) as its (i * size + j)-th; this runs the visits first..(last - 1)
\* in that order, half of them at a time
RECURSIVE ebm_mul_pairs(_, _, _, _, _, _)
ebm_mul_pairs(sz, a_bytes, b_bytes, first, last, partial_products) ==
    IF last <= first THEN partial_products
    ELSE IF last = first + 1
         THEN ebm_mul_pair(partial_products, a_bytes, b_bytes,
                           first \div sz, first % sz)
         ELSE LET middle == (first + last) \div 2
                  half   == ebm_mul_pairs(sz, a_bytes, b_bytes, first, middle,
                                          partial_products)
              IN  After(half,
                        ebm_mul_pairs(sz, a_bytes, b_bytes, middle, last, half))

\* result_bytes[i] = partial_products[i] as u8, for i in 0..size
ebm_mul(sz, x, y) ==
    LET partial_products ==
            ebm_mul_pairs(sz, x, y, 0, sz * sz,
                [k \in 0..(PartialProductSlots - 1) |-> 0])
    IN  [i \in 0..(sz - 1) |-> partial_products[i] % 256]

----------------------------------------------------------------------------
(* ebm_div, ebm_mod *)

\* A u64 accumulator is modelled by its eight bytes, least significant
\* first.  Every shift the code applies to it is by a multiple of 8, so a
\* shift moves whole bytes between these positions.
U64Bytes == 8

u64_zero == [k \in 0..(U64Bytes - 1) |-> 0]

\* x | y on u8
RECURSIVE u8_or(_, _)
u8_or(x, y) ==
    IF x = 0 THEN y
    ELSE IF y = 0 THEN x
    ELSE (IF x % 2 = 1 \/ y % 2 = 1 THEN 1 ELSE 0)
             + 2 * u8_or(x \div 2, y \div 2)

\* the position the byte lands on in `(byte as u64) << shift`, or that
\* `(x >> shift) & 0xFF` reads: with overflow checks a shift of 64 or more
\* panics, without them the shift amount is taken modulo 64
u64_shift_panics(shift, overflow_checks) ==
    overflow_checks /\ shift >= 8 * U64Bytes

u64_shift_position(shift) == (shift % (8 * U64Bytes)) \div 8

\* for i in 0..size { acc |= (bytes[i] as u64) << (i * 8); }
RECURSIVE u64_reassemble_loop(_, _, _, _, _)
u64_reassemble_loop(sz, bytes, i, acc, overflow_checks) ==
    IF i >= sz THEN [panicked |-> FALSE, value |-> acc]
    ELSE IF u64_shift_panics(i * 8, overflow_checks)
         THEN [panicked |-> TRUE, value |-> acc]
         ELSE u64_reassemble_loop(sz, bytes, i + 1,
                  [acc EXCEPT ![u64_shift_position(i * 8)] = u8_or(@, bytes[i])],
                  overflow_checks)

u64_reassemble(sz, bytes, overflow_checks) ==
    u64_reassemble_loop(sz, bytes, 0, u64_zero, overflow_checks)

RECURSIVE u64_to_nat_from(_, _)
u64_to_nat_from(x, k) ==
    IF k >= U64Bytes THEN 0 ELSE x[k] + 256 * u64_to_nat_from(x, k + 1)

\* the number a u64 holds
u64_to_nat(x) == u64_to_nat_from(x, 0)

RECURSIVE nat_byte(_, _)
nat_byte(v, k) == IF k = 0 THEN v % 256 ELSE nat_byte(v \div 256, k - 1)

\* the u64 that holds v
u64_from_nat(v) == [k \in 0..(U64Bytes - 1) |-> nat_byte(v, k)]

\* dividend / divisor and dividend % divisor on u64, divisor non-zero
u64_div(x, y) == u64_from_nat(u64_to_nat(x) \div u64_to_nat(y))

u64_rem(x, y) == u64_from_nat(u64_to_nat(x) % u64_to_nat(y))

\* for i in 0..size { result_bytes[i] = ((q >> (i * 8)) & 0xFF) as u8; }
u64_redecompose(sz, q, overflow_checks) ==
    IF \E i \in 0..(sz - 1) : u64_shift_panics(i * 8, overflow_checks)
    THEN [panicked |-> TRUE, value |-> default_value(sz)]
    ELSE [panicked |-> FALSE,
          value |-> [i \in 0..(sz - 1) |-> q[u64_shift_position(i * 8)]]]

\* the zero check is missing: the native division panics on a zero divisor
ebm_div_zero_unchecked(sz, x, y, overflow_checks) ==
    LET dividend == u64_reassemble(sz, x, overflow_checks)
        divisor  == u64_reassemble(sz, y, overflow_checks)
    IN  IF dividend.panicked \/ divisor.panicked
        THEN [panicked |-> TRUE, value |-> default_value(sz)]
        ELSE IF divisor.value = u64_zero
        THEN [panicked |-> TRUE, value |-> default_value(sz)]
        ELSE u64_redecompose(sz, u64_div(dividend.value, divisor.value),
                             overflow_checks)

\* the operand bytes are reassembled most significant byte first
ebm_div_big_endian(sz, x, y, overflow_checks) ==
    LET dividend ==
            u64_reassemble(sz, [i \in 0..(sz - 1) |-> x[sz - 1 - i]],
                           overflow_checks)
        divisor  ==
            u64_reassemble(sz, [i \in 0..(sz - 1) |-> y[sz - 1 - i]],
                           overflow_checks)
    IN  IF dividend.panicked \/ divisor.panicked
        THEN [panicked |-> TRUE, value |-> default_value(sz)]
        ELSE IF divisor.value = u64_zero
        THEN [panicked |-> FALSE, value |-> default_value(sz)]
        ELSE u64_redecompose(sz, u64_div(dividend.value, divisor.value),
                             overflow_checks)

\* what a call returns: the value, or a panic.  overflow_checks is the build
\* setting that decides what a shift by 64 or more does.
ebm_div(sz, x, y, overflow_checks) ==
    LET dividend == u64_reassemble(sz, x, overflow_checks)
        divisor  == u64_reassemble(sz, y, overflow_checks)
    IN  IF dividend.panicked \/ divisor.panicked
        THEN [panicked |-> TRUE, value |-> default_value(sz)]
        ELSE IF divisor.value = u64_zero
        THEN [panicked |-> FALSE, value |-> default_value(sz)]
        ELSE u64_redecompose(sz, u64_div(dividend.value, divisor.value),
                             overflow_checks)

\* the quotient is returned in place of the remainder
ebm_mod_quotient(sz, x, y, overflow_checks) ==
    ebm_div(sz, x, y, overflow_checks)

ebm_mod(sz, x, y, overflow_checks) ==
    LET dividend == u64_reassemble(sz, x, overflow_checks)
        divisor  == u64_reassemble(sz, y, overflow_checks)
    IN  IF dividend.panicked \/ divisor.panicked
        THEN [panicked |-> TRUE, value |-> default_value(sz)]
        ELSE IF divisor.value = u64_zero
        THEN [panicked |-> FALSE, value |-> default_value(sz)]
        ELSE u64_redecompose(sz, u64_rem(dividend.value, divisor.value),
                             overflow_checks)

----------------------------------------------------------------------------
(* ebm_left_shift, ebm_right_shift *)

\* width of usize on the 64-bit targets the buffers are sized for
UsizeBits == 64

Min(x, y) == IF x < y THEN x ELSE y

\* the mutant keeps the bits shifted out of the byte
u8_shl_unmasked(byte, s) == byte * (2 ^ s)

\* source_byte << remaining_bit_shift on u8, the shift being below 8
u8_shl(byte, s) == (byte * (2 ^ s)) % 256

\* source_byte >> remaining_bit_shift on u8
u8_shr(byte, s) == byte \div (2 ^ s)

\* i.wrapping_sub(full_byte_shift) < size: when i < full_byte_shift the
\* difference wraps to 2^64 - (full_byte_shift - i), which is not below size
left_source_in_bounds(i, full_byte_shift, sz) ==
    i >= full_byte_shift /\ i - full_byte_shift < sz

\* the amount is taken modulo the bit width in place of being clamped to it
ebm_left_shift_masked(sz, x, shift_amount) ==
    LET max_shift           == sz * 8
        clamped_shift       == shift_amount % max_shift
        full_byte_shift     == clamped_shift \div 8
        remaining_bit_shift == clamped_shift % 8
    IN  IF clamped_shift = 0 THEN x
        ELSE IF clamped_shift >= max_shift THEN default_value(sz)
        ELSE [i \in 0..(sz - 1) |->
                 IF left_source_in_bounds(i, full_byte_shift, sz)
                 THEN u8_shl(x[i - full_byte_shift], remaining_bit_shift)
                 ELSE 0]

ebm_left_shift(sz, x, shift_amount) ==
    LET max_shift           == sz * 8
        clamped_shift       == Min(shift_amount, max_shift)
        full_byte_shift     == clamped_shift \div 8
        remaining_bit_shift == clamped_shift % 8
    IN  IF clamped_shift = 0 THEN x
        ELSE IF clamped_shift >= max_shift THEN default_value(sz)
        ELSE [i \in 0..(sz - 1) |->
                 IF left_source_in_bounds(i, full_byte_shift, sz)
                 THEN u8_shl(x[i - full_byte_shift], remaining_bit_shift)
                 ELSE 0]

\* the mutant reads the source byte at i, not at i + full_byte_shift
ebm_right_shift_in_place(sz, x, shift_amount) ==
    LET max_shift           == sz * 8
        clamped_shift       == Min(shift_amount, max_shift)
        full_byte_shift     == clamped_shift \div 8
        remaining_bit_shift == clamped_shift % 8
    IN  IF clamped_shift = 0 THEN x
        ELSE IF clamped_shift >= max_shift THEN default_value(sz)
        ELSE [i \in 0..(sz - 1) |->
                 IF i + full_byte_shift < sz
                 THEN u8_shr(x[i], remaining_bit_shift)
                 ELSE 0]

ebm_right_shift(sz, x, shift_amount) ==
    LET max_shift           == sz * 8
        clamped_shift       == Min(shift_amount, max_shift)
        full_byte_shift     == clamped_shift \div 8
        remaining_bit_shift == clamped_shift % 8
    IN  IF clamped_shift = 0 THEN x
        ELSE IF clamped_shift >= max_shift THEN default_value(sz)
        ELSE [i \in 0..(sz - 1) |->
                 IF i + full_byte_shift < sz
                 THEN u8_shr(x[i + full_byte_shift], remaining_bit_shift)
                 ELSE 0]

----------------------------------------------------------------------------
(* ebm_left_rotate, ebm_right_rotate *)

\* u8::rotate_left(r), r below 8
u8_rotate_left(byte, r) == ((byte * (2 ^ r)) % 256) + (byte \div (2 ^ (8 - r)))

\* u8::rotate_right(r), r below 8
u8_rotate_right(byte, r) == (byte \div (2 ^ r)) + ((byte * (2 ^ (8 - r))) % 256)

\* 2^e mod m
RECURSIVE Pow2Mod(_, _)
Pow2Mod(e, m) == IF e = 0 THEN 1 % m ELSE (2 * Pow2Mod(e - 1, m)) % m

\* (i.wrapping_sub(full_byte_rotate)) % size in usize arithmetic
left_rotate_source(i, full_byte_rotate, sz) ==
    IF i >= full_byte_rotate
    THEN (i - full_byte_rotate) % sz
    ELSE (Pow2Mod(UsizeBits, sz) + sz - ((full_byte_rotate - i) % sz)) % sz

\* the amount is clamped as a shift amount is, and a rotation by the bit
\* width or more returns the default value
ebm_left_rotate_clamped(sz, x, rotate_amount) ==
    LET bit_width            == sz * 8
        wrapped_rotate       == Min(rotate_amount, bit_width)
        full_byte_rotate     == wrapped_rotate \div 8
        remaining_bit_rotate == wrapped_rotate % 8
    IN  IF wrapped_rotate = 0 THEN x
        ELSE IF wrapped_rotate >= bit_width THEN default_value(sz)
        ELSE [i \in 0..(sz - 1) |->
                 u8_rotate_left(x[left_rotate_source(i, full_byte_rotate, sz)],
                                remaining_bit_rotate)]

ebm_left_rotate(sz, x, rotate_amount) ==
    LET bit_width            == sz * 8
        wrapped_rotate       == rotate_amount % bit_width
        full_byte_rotate     == wrapped_rotate \div 8
        remaining_bit_rotate == wrapped_rotate % 8
    IN  IF wrapped_rotate = 0 THEN x
        ELSE [i \in 0..(sz - 1) |->
                 u8_rotate_left(x[left_rotate_source(i, full_byte_rotate, sz)],
                                remaining_bit_rotate)]

\* the bits of each byte are rotated the wrong way
ebm_right_rotate_bits_left(sz, x, rotate_amount) ==
    LET bit_width            == sz * 8
        wrapped_rotate       == rotate_amount % bit_width
        full_byte_rotate     == wrapped_rotate \div 8
        remaining_bit_rotate == wrapped_rotate % 8
    IN  IF wrapped_rotate = 0 THEN x
        ELSE [i \in 0..(sz - 1) |->
                 u8_rotate_left(x[(i + full_byte_rotate) % sz],
                                remaining_bit_rotate)]

ebm_right_rotate(sz, x, rotate_amount) ==
    LET bit_width            == sz * 8
        wrapped_rotate       == rotate_amount % bit_width
        full_byte_rotate     == wrapped_rotate \div 8
        remaining_bit_rotate == wrapped_rotate % 8
    IN  IF wrapped_rotate = 0 THEN x
        ELSE [i \in 0..(sz - 1) |->
                 u8_rotate_right(x[(i + full_byte_rotate) % sz],
                                 remaining_bit_rotate)]

----------------------------------------------------------------------------
(* ebm_and, ebm_or, ebm_xor, ebm_not: bitwise_logic.rs *)

\* x & y on u8
RECURSIVE u8_and(_, _)
u8_and(x, y) ==
    IF x = 0 \/ y = 0 THEN 0
    ELSE (IF x % 2 = 1 /\ y % 2 = 1 THEN 1 ELSE 0)
             + 2 * u8_and(x \div 2, y \div 2)

\* x ^ y on u8
RECURSIVE u8_xor(_, _)
u8_xor(x, y) ==
    IF x = 0 THEN y
    ELSE IF y = 0 THEN x
    ELSE (IF x % 2 # y % 2 THEN 1 ELSE 0)
             + 2 * u8_xor(x \div 2, y \div 2)

\* !x on u8
u8_not(x) == 255 - x

ebm_and(sz, x, y) == [i \in 0..(sz - 1) |-> u8_and(x[i], y[i])]

ebm_or(sz, x, y) == [i \in 0..(sz - 1) |-> u8_or(x[i], y[i])]

\* the mutant combines the bytes with | in place of ^
ebm_xor_as_or(sz, x, y) == [i \in 0..(sz - 1) |-> u8_or(x[i], y[i])]

ebm_xor(sz, x, y) == [i \in 0..(sz - 1) |-> u8_xor(x[i], y[i])]

ebm_not(sz, x) == [i \in 0..(sz - 1) |-> u8_not(x[i])]

----------------------------------------------------------------------------
(* Bit counting: bitwise_counting.rs.  The calls return a u32 count. *)

\* (a_byte >> bit_pos) & 1
u8_bit(a_byte, bit_pos) == (a_byte \div (2 ^ bit_pos)) % 2

\* the mutant counts bit positions 0..6 only
RECURSIVE population_byte_count_seven(_, _, _)
population_byte_count_seven(a_byte, bit_pos, byte_count) ==
    IF bit_pos >= 7 THEN byte_count
    ELSE population_byte_count_seven(a_byte, bit_pos + 1,
             IF u8_bit(a_byte, bit_pos) = 1
             THEN byte_count + 1 ELSE byte_count)

\* for bit_pos in 0..8 of ebm_population_count
RECURSIVE population_byte_count(_, _, _)
population_byte_count(a_byte, bit_pos, byte_count) ==
    IF bit_pos >= 8 THEN byte_count
    ELSE population_byte_count(a_byte, bit_pos + 1,
             IF u8_bit(a_byte, bit_pos) = 1
             THEN byte_count + 1 ELSE byte_count)

\* for i in 0..size of ebm_population_count
RECURSIVE population_count_loop(_, _, _, _)
population_count_loop(sz, a_bytes, i, total_count) ==
    IF i >= sz THEN total_count
    ELSE population_count_loop(sz, a_bytes, i + 1,
             total_count + population_byte_count(a_bytes[i], 0, 0))

ebm_population_count(sz, x) == population_count_loop(sz, x, 0, 0)

\* A bit scan inside one byte ends either in `return total` (returned) or
\* at the end of the byte with the count advanced by eight.

\* for bit_pos in (0..8).rev() of ebm_leading_zeros, from bit_pos downwards
RECURSIVE leading_zeros_bits(_, _, _)
leading_zeros_bits(a_byte, bit_pos, total_zeros) ==
    IF bit_pos < 0 THEN [returned |-> FALSE, total |-> total_zeros]
    ELSE IF u8_bit(a_byte, bit_pos) = 1
         THEN [returned |-> TRUE, total |-> total_zeros]
         ELSE leading_zeros_bits(a_byte, bit_pos - 1, total_zeros + 1)

\* the mutant advances the count by nine for an all-zero byte
RECURSIVE leading_zeros_loop_nine(_, _, _, _)
leading_zeros_loop_nine(sz, a_bytes, i, total_zeros) ==
    IF i >= sz THEN total_zeros
    ELSE IF a_bytes[i] = 0
         THEN leading_zeros_loop_nine(sz, a_bytes, i + 1, total_zeros + 9)
         ELSE LET scan == leading_zeros_bits(a_bytes[i], 7, total_zeros)
              IN  IF scan.returned THEN scan.total
                  ELSE leading_zeros_loop_nine(sz, a_bytes, i + 1, scan.total)

\* for i in 0..size of ebm_leading_zeros: byte index 0 first
RECURSIVE leading_zeros_loop(_, _, _, _)
leading_zeros_loop(sz, a_bytes, i, total_zeros) ==
    IF i >= sz THEN total_zeros
    ELSE IF a_bytes[i] = 0
         THEN leading_zeros_loop(sz, a_bytes, i + 1, total_zeros + 8)
         ELSE LET scan == leading_zeros_bits(a_bytes[i], 7, total_zeros)
              IN  IF scan.returned THEN scan.total
                  ELSE leading_zeros_loop(sz, a_bytes, i + 1, scan.total)

ebm_leading_zeros(sz, x) == leading_zeros_loop(sz, x, 0, 0)

\* for bit_pos in (0..8).rev() of ebm_leading_ones, from bit_pos downwards
RECURSIVE leading_ones_bits(_, _, _)
leading_ones_bits(a_byte, bit_pos, total_ones) ==
    IF bit_pos < 0 THEN [returned |-> FALSE, total |-> total_ones]
    ELSE IF u8_bit(a_byte, bit_pos) = 0
         THEN [returned |-> TRUE, total |-> total_ones]
         ELSE leading_ones_bits(a_byte, bit_pos - 1, total_ones + 1)

\* for i in 0..size of ebm_leading_ones: byte index 0 first
RECURSIVE leading_ones_loop(_, _, _, _)
leading_ones_loop(sz, a_bytes, i, total_ones) ==
    IF i >= sz THEN total_ones
    ELSE IF a_bytes[i] = 255
         THEN leading_ones_loop(sz, a_bytes, i + 1, total_ones + 8)
         ELSE LET scan == leading_ones_bits(a_bytes[i], 7, total_ones)
              IN  IF scan.returned THEN scan.total
                  ELSE leading_ones_loop(sz, a_bytes, i + 1, scan.total)

ebm_leading_ones(sz, x) == leading_ones_loop(sz, x, 0, 0)

\* for bit_pos in 0..8 of ebm_trailing_zeros, from bit_pos upwards
RECURSIVE trailing_zeros_bits(_, _, _)
trailing_zeros_bits(a_byte, bit_pos, total_zeros) ==
    IF bit_pos >= 8 THEN [returned |-> FALSE, total |-> total_zeros]
    ELSE IF u8_bit(a_byte, bit_pos) = 1
         THEN [returned |-> TRUE, total |-> total_zeros]
         ELSE trailing_zeros_bits(a_byte, bit_pos + 1, total_zeros + 1)

\* for i in (0..size).rev() of ebm_trailing_zeros: byte index size-1 first
RECURSIVE trailing_zeros_loop(_, _, _, _)
trailing_zeros_loop(sz, a_bytes, i, total_zeros) ==
    IF i < 0 THEN total_zeros
    ELSE IF a_bytes[i] = 0
         THEN trailing_zeros_loop(sz, a_bytes, i - 1, total_zeros + 8)
         ELSE LET scan == trailing_zeros_bits(a_bytes[i], 0, total_zeros)
              IN  IF scan.returned THEN scan.total
                  ELSE trailing_zeros_loop(sz, a_bytes, i - 1, scan.total)

ebm_trailing_zeros(sz, x) == trailing_zeros_loop(sz, x, sz - 1, 0)

\* for bit_pos in 0..8 of ebm_trailing_ones, from bit_pos upwards
RECURSIVE trailing_ones_bits(_, _, _)
trailing_ones_bits(a_byte, bit_pos, total_ones) ==
    IF bit_pos >= 8 THEN [returned |-> FALSE, total |-> total_ones]
    ELSE IF u8_bit(a_byte, bit_pos) = 0
         THEN [returned |-> TRUE, total |-> total_ones]
         ELSE trailing_ones_bits(a_byte, bit_pos + 1, total_ones + 1)

\* for i in (0..size).rev() of ebm_trailing_ones: byte index size-1 first
RECURSIVE trailing_ones_loop(_, _, _, _)
trailing_ones_loop(sz, a_bytes, i, total_ones) ==
    IF i < 0 THEN total_ones
    ELSE IF a_bytes[i] = 255
         THEN trailing_ones_loop(sz, a_bytes, i - 1, total_ones + 8)
         ELSE LET scan == trailing_ones_bits(a_bytes[i], 0, total_ones)
              IN  IF scan.returned THEN scan.total
                  ELSE trailing_ones_loop(sz, a_bytes, i - 1, scan.total)

ebm_trailing_ones(sz, x) == trailing_ones_loop(sz, x, sz - 1, 0)

----------------------------------------------------------------------------
(* The pending call *)

\* a call that runs as one step has no frame of a stepwise call
NoFrames == <<>>

BinaryOps == {"add", "sub", "mul"}

\* the operations that take a value and a shift or rotate amount
AmountOps == {"left_shift", "right_shift", "left_rotate", "right_rotate"}

DivisionOps == {"div", "mod"}

\* the logic operations of two values, and of one
LogicOps == {"and", "or", "xor"}

UnaryLogicOps == {"not"}

\* the operations that take one value and return a count
CountingOps == {"population_count", "leading_zeros", "leading_ones",
                "trailing_zeros", "trailing_ones"}

Init ==
    /\ pc = "call"
    /\ panicked = FALSE
    /\ \/ /\ op \in BinaryOps
          /\ size \in Sizes
          /\ a \in Operands(size)
          /\ b \in Operands(size)
          /\ n = 0
       \/ /\ op \in DivisionOps
          /\ size \in DivSizes
          /\ a \in Operands(size)
          /\ b \in Operands(size)
          /\ n = 0
       \/ /\ op \in AmountOps
          /\ size \in Sizes
          /\ a \in Operands(size)
          /\ b = default_value(size)
          /\ n \in (0..MaxAmount) \cup LargeAmounts
       \/ /\ op \in CountingOps
          /\ size \in CountSizes
          /\ a \in Operands(size)
          /\ b = default_value(size)
          /\ n = 0
       \/ /\ op \in LogicOps
          /\ size \in LogicSizes
          /\ a \in Operands(size)
          /\ b \in Operands(size)
          /\ n = 0
       \/ /\ op \in UnaryLogicOps
          /\ size \in LogicSizes
          /\ a \in Operands(size)
          /\ b = default_value(size)
          /\ n = 0
       \/ /\ op \in AmountOps \cup CountingOps
          /\ size = 1
          /\ a \in AllBytes
          /\ b = default_value(size)
          /\ n \in IF op \in AmountOps
                   THEN (0..MaxAmount) \cup LargeAmounts ELSE {0}
    /\ result = default_value(size)
    /\ frames = NoFrames

Return(value) ==
    /\ result' = value
    /\ panicked' = FALSE
    /\ pc' = "done"
    /\ UNCHANGED <<op, size, a, b, n, frames>>

\* a call that ends in a value or in a panic
ReturnOutcome(outcome) ==
    /\ result' = outcome.value
    /\ panicked' = outcome.panicked
    /\ pc' = "done"
    /\ UNCHANGED <<op, size, a, b, n, frames>>

Add ==
    /\ pc = "call"
    /\ op = "add"
    /\ Return(ebm_add(size, a, b))

Sub ==
    /\ pc = "call"
    /\ op = "sub"
    /\ Return(ebm_sub(size, a, b))

Mul ==
    /\ pc = "call"
    /\ op = "mul"
    /\ Return(ebm_mul(size, a, b))

LeftShift ==
    /\ pc = "call"
    /\ op = "left_shift"
    /\ Return(ebm_left_shift(size, a, n))

RightShift ==
    /\ pc = "call"
    /\ op = "right_shift"
    /\ Return(ebm_right_shift(size, a, n))

LeftRotate ==
    /\ pc = "call"
    /\ op = "left_rotate"
    /\ Return(ebm_left_rotate(size, a, n))

RightRotate ==
    /\ pc = "call"
    /\ op = "right_rotate"
    /\ Return(ebm_right_rotate(size, a, n))

Div ==
    /\ pc = "call"
    /\ op = "div"
    /\ \E overflow_checks \in BOOLEAN :
           ReturnOutcome(ebm_div(size, a, b, overflow_checks))

Mod ==
    /\ pc = "call"
    /\ op = "mod"
    /\ \E overflow_checks \in BOOLEAN :
           ReturnOutcome(ebm_mod(size, a, b, overflow_checks))

And ==
    /\ pc = "call"
    /\ op = "and"
    /\ Return(ebm_and(size, a, b))

Or ==
    /\ pc = "call"
    /\ op = "or"
    /\ Return(ebm_or(size, a, b))

Xor ==
    /\ pc = "call"
    /\ op = "xor"
    /\ Return(ebm_xor(size, a, b))

Not ==
    /\ pc = "call"
    /\ op = "not"
    /\ Return(ebm_not(size, a))

PopulationCount ==
    /\ pc = "call"
    /\ op = "population_count"
    /\ Return(ebm_population_count(size, a))

LeadingZeros ==
    /\ pc = "call"
    /\ op = "leading_zeros"
    /\ Return(ebm_leading_zeros(size, a))

LeadingOnes ==
    /\ pc = "call"
    /\ op = "leading_ones"
    /\ Return(ebm_leading_ones(size, a))

TrailingZeros ==
    /\ pc = "call"
    /\ op = "trailing_zeros"
    /\ Return(ebm_trailing_zeros(size, a))

TrailingOnes ==
    /\ pc = "call"
    /\ op = "trailing_ones"
    /\ Return(ebm_trailing_ones(size, a))

Next ==
    \/ Add
    \/ Sub
    \/ Mul
    \/ Div
    \/ Mod
    \/ LeftShift
    \/ RightShift
    \/ LeftRotate
    \/ RightRotate
    \/ And
    \/ Or
    \/ Xor
    \/ Not
    \/ PopulationCount
    \/ LeadingZeros
    \/ LeadingOnes
    \/ TrailingZeros
    \/ TrailingOnes

Spec == Init /\ [][Next]_vars

----------------------------------------------------------------------------
(* The division and modulo calls at the width of u128 *)

WideSize == 16

\* byte 8 of a 128-bit operand: the first byte above the 64-bit accumulator
WideHighBytes == {0, 1, 3}

\* 128-bit operands with bytes 0, 1 and 8 populated
WideOperands ==
    { [i \in 0..(WideSize - 1) |->
          IF i < 2 THEN low[i] ELSE IF i = 8 THEN high ELSE 0] :
        low \in [0..1 -> ByteVals], high \in WideHighBytes }

InitWide ==
    /\ pc = "call"
    /\ panicked = FALSE
    /\ op \in DivisionOps
    /\ size = WideSize
    /\ a \in WideOperands
    /\ b \in WideOperands
    /\ n = 0
    /\ result = default_value(size)
    /\ frames = NoFrames

NextWide ==
    \/ Div
    \/ Mod

SpecWide == InitWide /\ [][NextWide]_vars

----------------------------------------------------------------------------
(* Stepwise calls.  A call runs in a frame of its own: the arguments, the  *)
(* 64-byte scratch buffers, the loop indices and the carry, borrow and     *)
(* accumulator locals of the function body.  One step is the prologue, one *)
(* loop iteration, or the return; the steps of the frames interleave.      *)

\* [u8; 64]
BufferBytes == 64

zero_buffer == [k \in 0..(BufferBytes - 1) |-> 0]

\* [0u32; 128]
zero_partial_products == [k \in 0..(PartialProductSlots - 1) |-> 0]

\* transmute(a): T -> [u8; 64] copies the memory image of the value, byte 0
\* first.  T is shorter than the buffer: the bytes from size on are not part
\* of the value, and junk stands for whatever they happen to hold
transmute_to_buffer(value, sz, junk) ==
    [k \in 0..(BufferBytes - 1) |-> IF k < sz THEN value[k] ELSE junk]

\* the mutant takes the last size bytes of the buffer
transmute_from_buffer_tail(buffer, sz) ==
    [k \in 0..(sz - 1) |-> buffer[BufferBytes - sz + k]]

\* transmute(result_bytes): [u8; 64] -> T keeps the first size bytes
transmute_from_buffer(buffer, sz) == [k \in 0..(sz - 1) |-> buffer[k]]

\* the frame of a call that has not started
NewFrame(o, sz, x, y, amount, junk, overflow_checks) ==
    [op               |-> o,
     size             |-> sz,
     a                |-> x,
     b                |-> y,
     n                |-> amount,
     junk             |-> junk,
     overflow_checks  |-> overflow_checks,
     pc               |-> "enter",
     a_bytes          |-> zero_buffer,
     b_bytes          |-> zero_buffer,
     result_bytes     |-> zero_buffer,
     partial_products |-> zero_partial_products,
     i                |-> 0,
     j                |-> 0,
     carry            |-> 0,
     borrow           |-> 0,
     sum              |-> 0,
     diff             |-> 0,
     pos              |-> 0,
     carry_lost       |-> FALSE,
     dividend         |-> u64_zero,
     divisor          |-> u64_zero,
     quotient         |-> u64_zero,
     total            |-> 0,
     iterations       |-> 0,
     reads            |-> {},
     writes           |-> {},
     slots            |-> {},
     ret              |-> default_value(sz)]

ShiftOps == {"left_shift", "right_shift"}

RotateOps == {"left_rotate", "right_rotate"}

\* the scans that run for i in (0..size).rev()
DescendingOps == {"trailing_zeros", "trailing_ones"}

\* the operations with a second operand buffer
TwoBufferOps == BinaryOps \cup DivisionOps \cup LogicOps

\* the prologue of a function: the early returns of the shifts and rotates,
\* then the transmutes of the arguments and the initial loop index
enter(f) ==
    LET bit_width     == f.size * 8
        clamped_shift == Min(f.n, bit_width)
    IN  IF f.op \in ShiftOps /\ clamped_shift = 0
        THEN [f EXCEPT !.pc = "done", !.ret = f.a]
        ELSE IF f.op \in ShiftOps /\ clamped_shift >= bit_width
        THEN [f EXCEPT !.pc = "done", !.ret = default_value(f.size)]
        ELSE IF f.op \in RotateOps /\ f.n % bit_width = 0
        THEN [f EXCEPT !.pc = "done", !.ret = f.a]
        ELSE [f EXCEPT
                 !.pc = "loop",
                 !.a_bytes = transmute_to_buffer(f.a, f.size, f.junk),
                 !.b_bytes = IF f.op \in TwoBufferOps
                             THEN transmute_to_buffer(f.b, f.size, f.junk)
                             ELSE @,
                 !.i = IF f.op \in DescendingOps THEN f.size - 1 ELSE 0]

\* the mutant keeps the carry in a place shared by all calls: the one the
\* first frame holds
ebm_add_step_shared_carry(f) ==
    LET i   == f.i
        sum == f.a_bytes[i] + f.b_bytes[i] + frames[1].carry
    IN  [f EXCEPT !.sum = sum,
                  !.result_bytes[i] = sum % 256,
                  !.carry = (sum \div 256) % 2,
                  !.reads = @ \cup {i},
                  !.writes = @ \cup {i},
                  !.iterations = @ + 1, !.i = i + 1]

\* one iteration of the byte loop of ebm_add
ebm_add_step(f) ==
    LET i   == f.i
        sum == f.a_bytes[i] + f.b_bytes[i] + f.carry
    IN  [f EXCEPT !.sum = sum,
                  !.result_bytes[i] = sum % 256,
                  !.carry = (sum \div 256) % 2,
                  !.reads = @ \cup {i},
                  !.writes = @ \cup {i},
                  !.iterations = @ + 1, !.i = i + 1]

\* the mutant borrows when the difference is zero as well
ebm_sub_step_borrow_on_zero(f) ==
    LET i    == f.i
        diff == f.a_bytes[i] - f.b_bytes[i] - f.borrow
    IN  [f EXCEPT !.diff = diff,
                  !.result_bytes[i] = i16_low_byte(diff),
                  !.borrow = IF diff <= 0 THEN 1 ELSE 0,
                  !.reads = @ \cup {i},
                  !.writes = @ \cup {i},
                  !.iterations = @ + 1, !.i = i + 1]

\* one iteration of the byte loop of ebm_sub
ebm_sub_step(f) ==
    LET i    == f.i
        diff == f.a_bytes[i] - f.b_bytes[i] - f.borrow
    IN  [f EXCEPT !.diff = diff,
                  !.result_bytes[i] = i16_low_byte(diff),
                  !.borrow = IF diff < 0 THEN 1 ELSE 0,
                  !.reads = @ \cup {i},
                  !.writes = @ \cup {i},
                  !.iterations = @ + 1, !.i = i + 1]

\* the mutant drops the high part of the slot's sum
ebm_mul_pair_step_carry_dropped(f) ==
    LET product  == f.a_bytes[f.i] * f.b_bytes[f.j]
        position == f.i + f.j
        current  == f.partial_products[position] + product
    IN  [f EXCEPT !.pc = "cascade",
                  !.iterations = @ + 1,
                  !.partial_products[position] = current % 256,
                  !.carry = 0,
                  !.pos = position + 1,
                  !.reads = @ \cup {f.i, f.j},
                  !.slots = @ \cup {position}]

\* the body of the inner loop of ebm_mul up to the cascade: the product of
\* the byte pair (i, j) is added at slot i + j
ebm_mul_pair_step(f) ==
    LET product  == f.a_bytes[f.i] * f.b_bytes[f.j]
        position == f.i + f.j
        current  == f.partial_products[position] + product
    IN  [f EXCEPT !.pc = "cascade",
                  !.iterations = @ + 1,
                  !.partial_products[position] = current % 256,
                  !.carry = current \div 256,
                  !.pos = position + 1,
                  !.reads = @ \cup {f.i, f.j},
                  !.slots = @ \cup {position}]

\* the mutant neither lowers the carry nor moves to the next slot
ebm_mul_cascade_step_stuck(f) ==
    IF f.carry > 0 /\ f.pos < PartialProductSlots
    THEN LET current == f.partial_products[f.pos] + f.carry
         IN  [f EXCEPT !.partial_products[f.pos] = current % 256,
                       !.slots = @ \cup {f.pos}]
    ELSE LET last_j == f.j + 1 >= f.size
             last_i == last_j /\ f.i + 1 >= f.size
         IN  [f EXCEPT !.pc = IF last_i THEN "copy" ELSE "loop",
                       !.iterations = IF last_i THEN 0 ELSE @,
                       !.carry_lost = @ \/ f.carry > 0,
                       !.j = IF last_j THEN 0 ELSE f.j + 1,
                       !.i = IF last_i THEN 0
                             ELSE IF last_j THEN f.i + 1 ELSE f.i]

\* the test of `while carry > 0 && pos < 128` and, when it holds, one
\* iteration of the cascade; when it fails, the pair is finished: the loops
\* move to the next pair, and after the last pair to the copy loop
ebm_mul_cascade_step(f) ==
    IF f.carry > 0 /\ f.pos < PartialProductSlots
    THEN LET current == f.partial_products[f.pos] + f.carry
         IN  [f EXCEPT !.partial_products[f.pos] = current % 256,
                       !.carry = current \div 256,
                       !.pos = f.pos + 1,
                       !.slots = @ \cup {f.pos}]
    ELSE LET last_j == f.j + 1 >= f.size
             last_i == last_j /\ f.i + 1 >= f.size
         IN  [f EXCEPT !.pc = IF last_i THEN "copy" ELSE "loop",
                       !.iterations = IF last_i THEN 0 ELSE @,
                       !.carry_lost = @ \/ f.carry > 0,
                       !.j = IF last_j THEN 0 ELSE f.j + 1,
                       !.i = IF last_i THEN 0
                             ELSE IF last_j THEN f.i + 1 ELSE f.i]

\* one iteration of the copy loop of ebm_mul:
\* result_bytes[i] = partial_products[i] as u8
ebm_mul_copy_step(f) ==
    [f EXCEPT !.result_bytes[f.i] = f.partial_products[f.i] % 256,
              !.slots = @ \cup {f.i},
              !.writes = @ \cup {f.i},
              !.iterations = @ + 1, !.i = f.i + 1]

\* one iteration of the loop that builds dividend and divisor
ebm_div_reassemble_step(f) ==
    IF u64_shift_panics(f.i * 8, f.overflow_checks)
    THEN [f EXCEPT !.pc = "panicked"]
    ELSE LET lane == u64_shift_position(f.i * 8)
         IN  [f EXCEPT !.dividend[lane] = u8_or(@, f.a_bytes[f.i]),
                       !.divisor[lane] = u8_or(@, f.b_bytes[f.i]),
                       !.reads = @ \cup {f.i},
                       !.iterations = @ + 1, !.i = f.i + 1]

\* the zero check and the native division, respectively remainder
ebm_div_divide_step(f) ==
    IF f.divisor = u64_zero
    THEN [f EXCEPT !.pc = "done", !.ret = default_value(f.size)]
    ELSE [f EXCEPT !.pc = "redecompose",
                   !.iterations = 0,
                   !.quotient = IF f.op = "div"
                                THEN u64_div(f.dividend, f.divisor)
                                ELSE u64_rem(f.dividend, f.divisor),
                   !.i = 0]

\* one iteration of the loop that writes the quotient or remainder back
ebm_div_redecompose_step(f) ==
    IF u64_shift_panics(f.i * 8, f.overflow_checks)
    THEN [f EXCEPT !.pc = "panicked"]
    ELSE [f EXCEPT !.result_bytes[f.i] =
                       f.quotient[u64_shift_position(f.i * 8)],
                   !.writes = @ \cup {f.i},
                   !.iterations = @ + 1, !.i = f.i + 1]

\* one iteration of the byte loop of ebm_left_shift
ebm_left_shift_step(f) ==
    LET clamped_shift       == Min(f.n, f.size * 8)
        full_byte_shift     == clamped_shift \div 8
        remaining_bit_shift == clamped_shift % 8
        i                   == f.i
    IN  IF left_source_in_bounds(i, full_byte_shift, f.size)
        THEN [f EXCEPT !.result_bytes[i] =
                           u8_shl(f.a_bytes[i - full_byte_shift],
                                  remaining_bit_shift),
                       !.reads = @ \cup {i - full_byte_shift},
                       !.writes = @ \cup {i},
                       !.iterations = @ + 1, !.i = i + 1]
        ELSE [f EXCEPT !.result_bytes[i] = 0,
                       !.writes = @ \cup {i},
                       !.iterations = @ + 1, !.i = i + 1]

\* one iteration of the byte loop of ebm_right_shift
ebm_right_shift_step(f) ==
    LET clamped_shift       == Min(f.n, f.size * 8)
        full_byte_shift     == clamped_shift \div 8
        remaining_bit_shift == clamped_shift % 8
        i                   == f.i
    IN  IF i + full_byte_shift < f.size
        THEN [f EXCEPT !.result_bytes[i] =
                           u8_shr(f.a_bytes[i + full_byte_shift],
                                  remaining_bit_shift),
                       !.reads = @ \cup {i + full_byte_shift},
                       !.writes = @ \cup {i},
                       !.iterations = @ + 1, !.i = i + 1]
        ELSE [f EXCEPT !.result_bytes[i] = 0,
                       !.writes = @ \cup {i},
                       !.iterations = @ + 1, !.i = i + 1]

\* one iteration of the byte loop of ebm_left_rotate
ebm_left_rotate_step(f) ==
    LET wrapped_rotate       == f.n % (f.size * 8)
        full_byte_rotate     == wrapped_rotate \div 8
        remaining_bit_rotate == wrapped_rotate % 8
        source_byte_index    ==
            left_rotate_source(f.i, full_byte_rotate, f.size)
    IN  [f EXCEPT !.result_bytes[f.i] =
                      u8_rotate_left(f.a_bytes[source_byte_index],
                                     remaining_bit_rotate),
                  !.reads = @ \cup {source_byte_index},
                  !.writes = @ \cup {f.i},
                  !.iterations = @ + 1, !.i = f.i + 1]

\* the mutant leaves out the `% size` of the source index
ebm_right_rotate_step_unwrapped(f) ==
    LET wrapped_rotate       == f.n % (f.size * 8)
        full_byte_rotate     == wrapped_rotate \div 8
        remaining_bit_rotate == wrapped_rotate % 8
        source_byte_index    == f.i + full_byte_rotate
    IN  [f EXCEPT !.result_bytes[f.i] =
                      u8_rotate_right(f.a_bytes[source_byte_index],
                                      remaining_bit_rotate),
                  !.reads = @ \cup {source_byte_index},
                  !.writes = @ \cup {f.i},
                  !.iterations = @ + 1, !.i = f.i + 1]

\* one iteration of the byte loop of ebm_right_rotate
ebm_right_rotate_step(f) ==
    LET wrapped_rotate       == f.n % (f.size * 8)
        full_byte_rotate     == wrapped_rotate \div 8
        remaining_bit_rotate == wrapped_rotate % 8
        source_byte_index    == (f.i + full_byte_rotate) % f.size
    IN  [f EXCEPT !.result_bytes[f.i] =
                      u8_rotate_right(f.a_bytes[source_byte_index],
                                      remaining_bit_rotate),
                  !.reads = @ \cup {source_byte_index},
                  !.writes = @ \cup {f.i},
                  !.iterations = @ + 1, !.i = f.i + 1]

\* one iteration of the byte loop of ebm_and, ebm_or, ebm_xor, ebm_not
ebm_and_step(f) ==
    [f EXCEPT !.result_bytes[f.i] = u8_and(f.a_bytes[f.i], f.b_bytes[f.i]),
              !.reads = @ \cup {f.i},
              !.writes = @ \cup {f.i},
              !.iterations = @ + 1, !.i = f.i + 1]

ebm_or_step(f) ==
    [f EXCEPT !.result_bytes[f.i] = u8_or(f.a_bytes[f.i], f.b_bytes[f.i]),
              !.reads = @ \cup {f.i},
              !.writes = @ \cup {f.i},
              !.iterations = @ + 1, !.i = f.i + 1]

ebm_xor_step(f) ==
    [f EXCEPT !.result_bytes[f.i] = u8_xor(f.a_bytes[f.i], f.b_bytes[f.i]),
              !.reads = @ \cup {f.i},
              !.writes = @ \cup {f.i},
              !.iterations = @ + 1, !.i = f.i + 1]

ebm_not_step(f) ==
    [f EXCEPT !.result_bytes[f.i] = u8_not(f.a_bytes[f.i]),
              !.reads = @ \cup {f.i},
              !.writes = @ \cup {f.i},
              !.iterations = @ + 1, !.i = f.i + 1]

\* one iteration of the byte loop of ebm_population_count
ebm_population_count_step(f) ==
    [f EXCEPT !.total = @ + population_byte_count(f.a_bytes[f.i], 0, 0),
              !.reads = @ \cup {f.i},
              !.iterations = @ + 1, !.i = f.i + 1]

\* one iteration of the byte loop of a run count: the byte adds 8, or its
\* bit scan returns from the function; the index moves by direction
scan_step(f, full_byte, scan, direction) ==
    IF f.a_bytes[f.i] = full_byte
    THEN [f EXCEPT !.total = @ + 8,
                   !.reads = @ \cup {f.i},
                   !.iterations = @ + 1, !.i = f.i + direction]
    ELSE IF scan.returned
    THEN [f EXCEPT !.pc = "done",
                   !.iterations = @ + 1,
                   !.ret = scan.total,
                   !.total = scan.total,
                   !.reads = @ \cup {f.i}]
    ELSE [f EXCEPT !.total = scan.total,
                   !.reads = @ \cup {f.i},
                   !.iterations = @ + 1, !.i = f.i + direction]

ebm_leading_zeros_step(f) ==
    scan_step(f, 0, leading_zeros_bits(f.a_bytes[f.i], 7, f.total), 1)

ebm_leading_ones_step(f) ==
    scan_step(f, 255, leading_ones_bits(f.a_bytes[f.i], 7, f.total), 1)

ebm_trailing_zeros_step(f) ==
    scan_step(f, 0, trailing_zeros_bits(f.a_bytes[f.i], 0, f.total), -1)

ebm_trailing_ones_step(f) ==
    scan_step(f, 255, trailing_ones_bits(f.a_bytes[f.i], 0, f.total), -1)

\* the loop the frame is in has run to its end
loop_finished(f) ==
    IF f.op \in DescendingOps THEN f.i < 0 ELSE f.i >= f.size

\* the return of a function after its last loop
exit(f) ==
    [f EXCEPT !.pc = "done",
              !.ret = IF f.op \in CountingOps
                      THEN f.total
                      ELSE transmute_from_buffer(f.result_bytes, f.size)]

\* a step of the frame c: nothing but that frame changes
RunStep(c, after) ==
    /\ frames' = [frames EXCEPT ![c] = after]
    /\ UNCHANGED <<op, size, a, b, n, pc, result, panicked>>

\* the frame c is about to run an iteration of the byte loop of o
InLoop(c, o) ==
    /\ frames[c].pc = "loop"
    /\ frames[c].op = o
    /\ ~loop_finished(frames[c])

Enter ==
    \E c \in DOMAIN frames :
        /\ frames[c].pc = "enter"
        /\ RunStep(c, enter(frames[c]))

AddStep ==
    \E c \in DOMAIN frames :
        /\ InLoop(c, "add")
        /\ RunStep(c, ebm_add_step(frames[c]))

SubStep ==
    \E c \in DOMAIN frames :
        /\ InLoop(c, "sub")
        /\ RunStep(c, ebm_sub_step(frames[c]))

MulPairStep ==
    \E c \in DOMAIN frames :
        /\ InLoop(c, "mul")
        /\ RunStep(c, ebm_mul_pair_step(frames[c]))

MulCascadeStep ==
    \E c \in DOMAIN frames :
        /\ frames[c].pc = "cascade"
        /\ RunStep(c, ebm_mul_cascade_step(frames[c]))

MulCopyStep ==
    \E c \in DOMAIN frames :
        /\ frames[c].pc = "copy"
        /\ frames[c].i < frames[c].size
        /\ RunStep(c, ebm_mul_copy_step(frames[c]))

ReassembleStep ==
    \E c \in DOMAIN frames :
        /\ frames[c].pc = "loop"
        /\ frames[c].op \in DivisionOps
        /\ frames[c].i < frames[c].size
        /\ RunStep(c, ebm_div_reassemble_step(frames[c]))

DivideStep ==
    \E c \in DOMAIN frames :
        /\ frames[c].pc = "loop"
        /\ frames[c].op \in DivisionOps
        /\ frames[c].i >= frames[c].size
        /\ RunStep(c, ebm_div_divide_step(frames[c]))

RedecomposeStep ==
    \E c \in DOMAIN frames :
        /\ frames[c].pc = "redecompose"
        /\ frames[c].i < frames[c].size
        /\ RunStep(c, ebm_div_redecompose_step(frames[c]))

LeftShiftStep ==
    \E c \in DOMAIN frames :
        /\ InLoop(c, "left_shift")
        /\ RunStep(c, ebm_left_shift_step(frames[c]))

RightShiftStep ==
    \E c \in DOMAIN frames :
        /\ InLoop(c, "right_shift")
        /\ RunStep(c, ebm_right_shift_step(frames[c]))

LeftRotateStep ==
    \E c \in DOMAIN frames :
        /\ InLoop(c, "left_rotate")
        /\ RunStep(c, ebm_left_rotate_step(frames[c]))

RightRotateStep ==
    \E c \in DOMAIN frames :
        /\ InLoop(c, "right_rotate")
        /\ RunStep(c, ebm_right_rotate_step(frames[c]))

AndStep ==
    \E c \in DOMAIN frames :
        /\ InLoop(c, "and")
        /\ RunStep(c, ebm_and_step(frames[c]))

OrStep ==
    \E c \in DOMAIN frames :
        /\ InLoop(c, "or")
        /\ RunStep(c, ebm_or_step(frames[c]))

XorStep ==
    \E c \in DOMAIN frames :
        /\ InLoop(c, "xor")
        /\ RunStep(c, ebm_xor_step(frames[c]))

NotStep ==
    \E c \in DOMAIN frames :
        /\ InLoop(c, "not")
        /\ RunStep(c, ebm_not_step(frames[c]))

PopulationCountStep ==
    \E c \in DOMAIN frames :
        /\ InLoop(c, "population_count")
        /\ RunStep(c, ebm_population_count_step(frames[c]))

LeadingZerosStep ==
    \E c \in DOMAIN frames :
        /\ InLoop(c, "leading_zeros")
        /\ RunStep(c, ebm_leading_zeros_step(frames[c]))

LeadingOnesStep ==
    \E c \in DOMAIN frames :
        /\ InLoop(c, "leading_ones")
        /\ RunStep(c, ebm_leading_ones_step(frames[c]))

TrailingZerosStep ==
    \E c \in DOMAIN frames :
        /\ InLoop(c, "trailing_zeros")
        /\ RunStep(c, ebm_trailing_zeros_step(frames[c]))

TrailingOnesStep ==
    \E c \in DOMAIN frames :
        /\ InLoop(c, "trailing_ones")
        /\ RunStep(c, ebm_trailing_ones_step(frames[c]))

\* the return after the loop of a function, after the copy loop of ebm_mul
\* and after the write-back loop of ebm_div and ebm_mod
Exit ==
    \E c \in DOMAIN frames :
        /\ \/ /\ frames[c].pc = "loop"
              /\ frames[c].op \notin DivisionOps
              /\ loop_finished(frames[c])
           \/ /\ frames[c].pc \in {"copy", "redecompose"}
              /\ frames[c].i >= frames[c].size
        /\ RunStep(c, exit(frames[c]))

NextSteps ==
    \/ Enter
    \/ AddStep
    \/ SubStep
    \/ MulPairStep
    \/ MulCascadeStep
    \/ MulCopyStep
    \/ ReassembleStep
    \/ DivideStep
    \/ RedecomposeStep
    \/ LeftShiftStep
    \/ RightShiftStep
    \/ LeftRotateStep
    \/ RightRotateStep
    \/ AndStep
    \/ OrStep
    \/ XorStep
    \/ NotStep
    \/ PopulationCountStep
    \/ LeadingZerosStep
    \/ LeadingOnesStep
    \/ TrailingZerosStep
    \/ TrailingOnesStep
    \/ Exit


\* what the bytes after a value hold when it is transmuted to the buffer
JunkBytes == {0, 170}

\* widths of the stepwise calls: u8 and u16
StepSizes == {1, 2}

\* the calls of every operation at the width sz, with operand bytes in
\* byte_vals and amounts in amounts
CallsAt(sz, byte_vals, amounts, junks, builds) ==
    LET operands == [0..(sz - 1) -> byte_vals]
    IN  { NewFrame(o, sz, x, y, 0, junk, FALSE) :
            o \in BinaryOps \cup LogicOps,
            x \in operands, y \in operands, junk \in junks }
        \cup
        { NewFrame(o, sz, x, y, 0, junk, overflow_checks) :
            o \in DivisionOps,
            x \in operands, y \in operands, junk \in junks,
            overflow_checks \in builds }
        \cup
        { NewFrame(o, sz, x, default_value(sz), 0, junk, FALSE) :
            o \in UnaryLogicOps \cup CountingOps,
            x \in operands, junk \in junks }
        \cup
        { NewFrame(o, sz, x, default_value(sz), amount, junk, FALSE) :
            o \in AmountOps,
            x \in operands, amount \in amounts, junk \in junks }

Calls(sizes, byte_vals, amounts, junks, builds) ==
    UNION { CallsAt(sz, byte_vals, amounts, junks, builds) : sz \in sizes }

\* the widest multiplication the buffers hold, of the largest operands, and
\* a division at the width of u128
MaxWidthCalls ==
    { NewFrame("mul", BufferBytes, [k \in 0..(BufferBytes - 1) |-> 255],
               [k \in 0..(BufferBytes - 1) |-> 255], 0, 0, FALSE) }
    \cup
    { NewFrame(o, WideSize, [k \in 0..(WideSize - 1) |->
                   IF k = 0 THEN 6 ELSE IF k = 8 THEN 1 ELSE 0],
               [k \in 0..(WideSize - 1) |-> IF k = 0 THEN 3 ELSE 0], 0, junk,
               overflow_checks) :
        o \in DivisionOps, junk \in JunkBytes, overflow_checks \in BOOLEAN }

\* the variables of the calls that run as one step are not used
IdleCall ==
    /\ op = "none"
    /\ size = 1
    /\ a = default_value(1)
    /\ b = default_value(1)
    /\ n = 0
    /\ pc = "stepwise"
    /\ result = default_value(1)
    /\ panicked = FALSE

\* one caller
InitSteps ==
    /\ IdleCall
    /\ frames \in
           [1..1 -> Calls(StepSizes, ByteVals,
                          (0..MaxAmount) \cup LargeAmounts, JunkBytes,
                          BOOLEAN)
                    \cup MaxWidthCalls]

SpecSteps == InitSteps /\ [][NextSteps]_vars

\* the caller runs its call on: a thread that has called is scheduled until
\* the call has returned or panicked
SpecStepsFair == SpecSteps /\ WF_vars(NextSteps)

Callers == 1..2

\* two callers, each with a call of its own, on equal or on different
\* operands: every operation at the width of u8, and at the width of u16 on
\* the largest value
InitConcurrent ==
    /\ IdleCall
    /\ frames \in
           [Callers -> Calls({1}, {1, 255}, {3}, {170}, {FALSE})
                       \cup Calls({2}, {255}, {9}, {170}, {FALSE})]

SpecConcurrent == InitConcurrent /\ [][NextSteps]_vars

----------------------------------------------------------------------------
(* Claims *)

\* (x * y) mod m by doubling, every intermediate staying below 4 * m
RECURSIVE ProductMod(_, _, _)
ProductMod(x, y, m) ==
    IF y = 0 THEN 0
    ELSE (2 * ProductMod(x, y \div 2, m) + (y % 2) * (x % m)) % m

Returned(o) == pc = "done" /\ op = o /\ ~panicked

\* C1: for every width and all operands, ebm_add(a, b) is (a + b) mod 2^(8W);
\* the carry out of the most significant byte is dropped and nothing is
\* raised.
C1_AddWraps ==
    (pc = "done" /\ op = "add") =>
        /\ ~panicked
        /\ Val(result, size) = (Val(a, size) + Val(b, size)) % Modulus(size)

\* a 16-bit addition whose carry crosses the byte boundary and leaves the
\* most significant byte
C1_Witness ==
    /\ Returned("add")
    /\ size = 2
    /\ a[0] + b[0] >= 256
    /\ Val(a, size) + Val(b, size) >= Modulus(size)

\* C2: for every width and all operands, ebm_sub(a, b) is the non-negative
\* representative of (a - b) mod 2^(8W); a borrow out of the top byte wraps.
C2_SubWraps ==
    (pc = "done" /\ op = "sub") =>
        /\ ~panicked
        /\ Val(result, size) =
               (Val(a, size) - Val(b, size) + Modulus(size)) % Modulus(size)

\* a 16-bit subtraction that borrows across the byte boundary and out of the
\* most significant byte
C2_Witness ==
    /\ Returned("sub")
    /\ size = 2
    /\ a[0] < b[0]
    /\ Val(a, size) < Val(b, size)

\* C3: for every width and all operands, ebm_mul(a, b) is (a * b) mod
\* 2^(8W): the low W accumulator slots are the truncated product.
C3_MulWraps ==
    (pc = "done" /\ op = "mul") =>
        /\ ~panicked
        /\ Val(result, size) =
               ProductMod(Val(a, size), Val(b, size), Modulus(size))

\* a 16-bit multiplication whose low byte pair overflows a byte (the carry
\* cascades) and whose full product does not fit in 16 bits
C3_Witness ==
    /\ Returned("mul")
    /\ size = 2
    /\ a[0] * b[0] >= 256
    /\ a[1] * b[1] > 0
    /\ Val(result, size) # 0

\* bit k of the unsigned integer v
Bit(v, k) == (v \div (2 ^ k)) % 2

\* C4: for every width, value and amount 0 < n < 8W, ebm_left_shift(a, n)
\* is (a * 2^n) mod 2^(8W): the bits leaving a byte enter the next byte.
C4_LeftShiftExact ==
    (pc = "done" /\ op = "left_shift" /\ 0 < n /\ n < 8 * size) =>
        Val(result, size) = ProductMod(Val(a, size), 2 ^ n, Modulus(size))

\* C5: for every width, value and amount 0 < n < 8W, ebm_right_shift(a, n)
\* is floor(a / 2^n): the low bits of a byte enter the next lower byte.
C5_RightShiftExact ==
    (pc = "done" /\ op = "right_shift" /\ 0 < n /\ n < 8 * size) =>
        Val(result, size) = Val(a, size) \div (2 ^ n)

\* C6: for every width, value and amount n, with r = n mod 8W, bit
\* (k + r) mod 8W of ebm_left_rotate(a, n) and bit (k - r) mod 8W of
\* ebm_right_rotate(a, n) are bit k of a, for every bit position k.
C6_RotateWholePattern ==
    LET w == 8 * size
        r == n % w
    IN  /\ (pc = "done" /\ op = "left_rotate") =>
               \A k \in 0..(w - 1) :
                   Bit(Val(result, size), (k + r) % w) = Bit(Val(a, size), k)
        /\ (pc = "done" /\ op = "right_rotate") =>
               \A k \in 0..(w - 1) :
                   Bit(Val(result, size), (k + w - r) % w) = Bit(Val(a, size), k)

\* C7: for every width, value and amount n, rotating left by n and then
\* right by n gives the value back.
C7_RotateRoundTrip ==
    (pc = "done" /\ op = "left_rotate") =>
        ebm_right_rotate(size, result, n) = a

\* a 16-bit left rotation by an amount that moves both whole bytes and bits
\* within the bytes, and that changed the value
C7_Witness ==
    /\ Returned("left_rotate")
    /\ size = 2
    /\ (n % 16) \div 8 = 1
    /\ n % 8 # 0
    /\ result # a

C9_DivIsFloorQuotient ==
    (pc = "done" /\ op = "div" /\ Val(b, size) # 0) =>
        /\ ~panicked
        /\ Val(result, size) = Val(a, size) \div Val(b, size)

\* a 32-bit division of a dividend with all four bytes set by a two-byte
\* divisor, with a quotient of more than two bytes and a non-zero remainder
C9_Witness ==
    /\ Returned("div")
    /\ size = 4
    /\ \A i \in 0..3 : a[i] # 0
    /\ b[0] # 0
    /\ b[1] # 0
    /\ result[2] # 0
    /\ Val(a, size) % Val(b, size) # 0

ValueBit(bytes, k) == Bit(bytes[k \div 8], k % 8)

\* the positions of the bits of the 8 * sz bit value that equal bit
BitsEqual(bytes, sz, bit) ==
    {k \in 0..(8 * sz - 1) : ValueBit(bytes, k) = bit}

Highest(S) == CHOOSE k \in S : \A other \in S : other <= k

Lowest(S) == CHOOSE k \in S : \A other \in S : k <= other

\* C11: for every width W and every non-zero a, ebm_leading_zeros(a) is
\* 8W - 1 - (index of the highest set bit of the whole value): 0 for the
\* 16-bit 0x8000 and 15 for the 16-bit 0x0001.
C11_LeadingZerosFromTop ==
    (pc = "done" /\ op = "leading_zeros" /\ BitsEqual(a, size, 1) # {}) =>
        result = 8 * size - 1 - Highest(BitsEqual(a, size, 1))

\* C12: for every width W and every non-zero a, ebm_trailing_zeros(a) is
\* the index of the lowest set bit of the whole value: 15 for the 16-bit
\* 0x8000.
C12_TrailingZerosFromBottom ==
    (pc = "done" /\ op = "trailing_zeros" /\ BitsEqual(a, size, 1) # {}) =>
        result = Lowest(BitsEqual(a, size, 1))

\* C13: for every width W and every a that is not all ones,
\* ebm_leading_ones(a) is the length of the run of 1 bits that starts at the
\* most significant bit of the whole value, and ebm_trailing_ones(a) the
\* length of the run that starts at its least significant bit.
C13_OnesRuns ==
    /\ (pc = "done" /\ op = "leading_ones" /\ BitsEqual(a, size, 0) # {}) =>
           result = 8 * size - 1 - Highest(BitsEqual(a, size, 0))
    /\ (pc = "done" /\ op = "trailing_ones" /\ BitsEqual(a, size, 0) # {}) =>
           result = Lowest(BitsEqual(a, size, 0))

C15_FullRunAndRange ==
    (pc = "done" /\ op \in CountingOps) =>
        /\ ~panicked
        /\ result \in 0..(8 * size)
        /\ (op \in {"leading_zeros", "trailing_zeros"}
                /\ BitsEqual(a, size, 1) = {}) => result = 8 * size
        /\ (op \in {"leading_ones", "trailing_ones"}
                /\ BitsEqual(a, size, 0) = {}) => result = 8 * size

\* the leading zeros of the 64-bit zero value have been counted
C15_Witness ==
    /\ Returned("leading_zeros")
    /\ size = 8
    /\ BitsEqual(a, size, 1) = {}
    /\ result = 64

\* C16: for every width and all a, b, ebm_sub(ebm_add(a, b), b) is a, also
\* when the addition overflows.
C16_AddSubInverse ==
    (pc = "done" /\ op = "add") =>
        /\ ~panicked
        /\ ebm_sub(size, result, b) = a

\* a 16-bit addition that overflowed, whose sum is below b in both bytes'
\* worth: the subtraction borrows across the byte boundary and out of the top
C16_Witness ==
    /\ Returned("add")
    /\ size = 2
    /\ Val(a, size) + Val(b, size) >= Modulus(size)
    /\ result[0] < b[0]
    /\ Val(result, size) < Val(b, size)
    /\ a # b

\* C17: for every width and all a, b, ebm_mul(a, b) is ebm_mul(b, a).
C17_MulCommutes ==
    (pc = "done" /\ op = "mul") =>
        /\ ~panicked
        /\ result = ebm_mul(size, b, a)

\* a 16-bit multiplication of two different operands whose cross products
\* differ and overflow a byte, so the two orders cascade different carries
C17_Witness ==
    /\ Returned("mul")
    /\ size = 2
    /\ a[0] * b[1] # a[1] * b[0]
    /\ a[0] * b[1] >= 256
    /\ a[1] * b[0] >= 256
    /\ result # default_value(size)

\* C18: for every width W, value a and amount n >= 8W, ebm_left_shift(a, n)
\* and ebm_right_shift(a, n) are the all-zero value.
C18_ShiftOutIsZero ==
    (pc = "done" /\ op \in {"left_shift", "right_shift"} /\ n >= 8 * size) =>
        /\ ~panicked
        /\ result = default_value(size)

\* a non-zero 16-bit value has been shifted right by more than twice its
\* bit width
C18_Witness ==
    /\ Returned("right_shift")
    /\ size = 2
    /\ n > 2 * 8 * size
    /\ a[0] # 0
    /\ a[1] # 0
    /\ result = default_value(size)

\* C19: for every width W and value a, a shift by 0 in either direction
\* returns a, and a rotation in either direction by a multiple of 8W
\* returns a.
C19_IdentityAmounts ==
    /\ (pc = "done" /\ op \in {"left_shift", "right_shift"} /\ n = 0) =>
           ~panicked /\ result = a
    /\ (pc = "done" /\ op \in {"left_rotate", "right_rotate"}
            /\ n % (8 * size) = 0) =>
           ~panicked /\ result = a

\* a 16-bit value with two different bytes has been rotated left by a
\* non-zero multiple of its bit width
C19_Witness ==
    /\ Returned("left_rotate")
    /\ size = 2
    /\ n > 0
    /\ n % 16 = 0
    /\ a[0] # a[1]
    /\ result = a

\* schoolbook division of the little-endian byte image bytes by d, from
\* byte i downwards; 0 < d < 2^23 keeps every intermediate below 2^31
RECURSIVE LongDivision(_, _, _, _, _)
LongDivision(bytes, d, i, remainder, quotient) ==
    IF i < 0 THEN [quotient |-> quotient, remainder |-> remainder]
    ELSE LET current == remainder * 256 + bytes[i]
         IN  LongDivision(bytes, d, i - 1, current % d,
                          [quotient EXCEPT ![i] = current \div d])

\* C20: at the width of 16 bytes ebm_div and ebm_mod reassemble the whole
\* operands without a shift overflow and without losing or aliasing a byte:
\* no call panics, and for a non-zero divisor below 2^16 the call returns the
\* true 128-bit quotient, respectively remainder.
C20_WideAccumulators ==
    (pc = "done" /\ op \in DivisionOps /\ size = WideSize) =>
        /\ ~panicked
        /\ ((\A i \in 2..(size - 1) : b[i] = 0) /\ Val(b, 2) # 0) =>
               LET exact == LongDivision(a, Val(b, 2), size - 1, 0,
                                         zero_bytes(size))
               IN  /\ op = "div" => result = exact.quotient
                   /\ op = "mod" =>
                          result = [i \in 0..(size - 1) |->
                                       nat_byte(exact.remainder, i)]

\* C22: for every width and all a, b, bit k of ebm_and, ebm_or and ebm_xor
\* is the AND, OR and XOR of bit k of a and of b, for every bit position k;
\* ebm_not(a) has every bit of a flipped, and ebm_not(ebm_not(a)) is a.
C22_LogicBitwise ==
    LET positions == 0..(8 * size - 1)
    IN  /\ (pc = "done" /\ op = "and") =>
               \A k \in positions :
                   ValueBit(result, k) = ValueBit(a, k) * ValueBit(b, k)
        /\ (pc = "done" /\ op = "or") =>
               \A k \in positions :
                   ValueBit(result, k) =
                       IF ValueBit(a, k) + ValueBit(b, k) > 0 THEN 1 ELSE 0
        /\ (pc = "done" /\ op = "xor") =>
               \A k \in positions :
                   ValueBit(result, k) = (ValueBit(a, k) + ValueBit(b, k)) % 2
        /\ (pc = "done" /\ op = "not") =>
               /\ \A k \in positions :
                      ValueBit(result, k) = 1 - ValueBit(a, k)
               /\ ebm_not(size, result) = a
        /\ (pc = "done" /\ op \in LogicOps \cup UnaryLogicOps) => ~panicked

\* a 32-bit exclusive or of two operands that share set bits in one byte
\* and differ in it
C22_Witness ==
    /\ Returned("xor")
    /\ size = 4
    /\ a[0] = 255
    /\ b[0] = 18
    /\ a[3] = 127
    /\ b[3] = 0
    /\ result[0] = 237
    /\ result[3] = 127

\* C25: for every width W, value a and amount n that is a multiple of 8 with
\* 0 <= n < 8W, ebm_left_shift(a, n) is (a * 2^n) mod 2^(8W) and
\* ebm_right_shift(a, n) is floor(a / 2^n).
C25_WholeByteShifts ==
    /\ (pc = "done" /\ op = "left_shift" /\ n % 8 = 0 /\ n < 8 * size) =>
           /\ ~panicked
           /\ Val(result, size) =
                  ProductMod(Val(a, size), 2 ^ n, Modulus(size))
    /\ (pc = "done" /\ op = "right_shift" /\ n % 8 = 0 /\ n < 8 * size) =>
           /\ ~panicked
           /\ Val(result, size) = Val(a, size) \div (2 ^ n)

\* the 16-bit 0xFF00 has been shifted right by 8 and is 0x00FF
C25_Witness ==
    /\ Returned("right_shift")
    /\ size = 2
    /\ n = 8
    /\ a[0] = 0
    /\ a[1] = 255
    /\ result[0] = 255
    /\ result[1] = 0

C27_CountsAreBitWidth ==
    (pc = "done" /\ op \in CountingOps) => result = 8 * size

\* the calls in flight and returned
Frames == {frames[c] : c \in DOMAIN frames}

\* the frame has transmuted its arguments and not yet returned
InBody(f) == f.pc \in {"loop", "cascade", "copy", "redecompose"}

Alone(f) ==
    CASE f.op = "add" -> [panicked |-> FALSE, value |-> ebm_add(f.size, f.a, f.b)]
      [] f.op = "sub" -> [panicked |-> FALSE, value |-> ebm_sub(f.size, f.a, f.b)]
      [] f.op = "mul" -> [panicked |-> FALSE, value |-> ebm_mul(f.size, f.a, f.b)]
      [] f.op = "div" -> ebm_div(f.size, f.a, f.b, f.overflow_checks)
      [] f.op = "mod" -> ebm_mod(f.size, f.a, f.b, f.overflow_checks)
      [] f.op = "left_shift" ->
             [panicked |-> FALSE, value |-> ebm_left_shift(f.size, f.a, f.n)]
      [] f.op = "right_shift" ->
             [panicked |-> FALSE, value |-> ebm_right_shift(f.size, f.a, f.n)]
      [] f.op = "left_rotate" ->
             [panicked |-> FALSE, value |-> ebm_left_rotate(f.size, f.a, f.n)]
      [] f.op = "right_rotate" ->
             [panicked |-> FALSE, value |-> ebm_right_rotate(f.size, f.a, f.n)]
      [] f.op = "and" -> [panicked |-> FALSE, value |-> ebm_and(f.size, f.a, f.b)]
      [] f.op = "or" -> [panicked |-> FALSE, value |-> ebm_or(f.size, f.a, f.b)]
      [] f.op = "xor" -> [panicked |-> FALSE, value |-> ebm_xor(f.size, f.a, f.b)]
      [] f.op = "not" -> [panicked |-> FALSE, value |-> ebm_not(f.size, f.a)]
      [] f.op = "population_count" ->
             [panicked |-> FALSE, value |-> ebm_population_count(f.size, f.a)]
      [] f.op = "leading_zeros" ->
             [panicked |-> FALSE, value |-> ebm_leading_zeros(f.size, f.a)]
      [] f.op = "leading_ones" ->
             [panicked |-> FALSE, value |-> ebm_leading_ones(f.size, f.a)]
      [] f.op = "trailing_zeros" ->
             [panicked |-> FALSE, value |-> ebm_trailing_zeros(f.size, f.a)]
      [] f.op = "trailing_ones" ->
             [panicked |-> FALSE, value |-> ebm_trailing_ones(f.size, f.a)]

\* every call that has returned has returned what it returns alone
ReturnsAsAlone ==
    \A f \in Frames :
        f.pc \in {"done", "panicked"} =>
            /\ (f.pc = "panicked") = Alone(f).panicked
            /\ f.pc = "done" => f.ret = Alone(f).value

\* a step changes the frame of one call, and no argument of any call
StepIsLocal ==
    /\ \A c \in DOMAIN frames :
           /\ frames'[c].a = frames[c].a
           /\ frames'[c].b = frames[c].b
           /\ frames'[c].n = frames[c].n
    /\ \E c \in DOMAIN frames :
           \A other \in DOMAIN frames \ {c} : frames'[other] = frames[other]

\* C23: under any interleaving of the steps of two concurrent calls each call
\* returns exactly what it returns alone; a step touches only the buffers of
\* its own call, the arguments are never modified, and no carry, borrow or
\* accumulator is kept from one call to another.
C23_ConcurrentCallsIndependent ==
    /\ []ReturnsAsAlone
    /\ [][StepIsLocal]_vars

\* both calls are in the middle of their loops, each with a carry of its own
C23_Witness ==
    /\ frames[1].op = "add"
    /\ frames[2].op = "add"
    /\ frames[1].size = 2
    /\ frames[2].size = 1
    /\ frames[1].pc = "loop"
    /\ frames[1].i = 1
    /\ frames[1].carry = 1
    /\ frames[2].pc = "done"
    /\ frames[2].carry = 0

\* the number of iterations a loop of the frame is allowed
IterationBound(f) ==
    IF f.op = "mul" /\ f.pc \in {"loop", "cascade"}
    THEN f.size * f.size
    ELSE f.size

\* the loops keep to their bounds
LoopsBounded ==
    \A f \in Frames :
        /\ f.iterations <= IterationBound(f)
        /\ f.pos <= PartialProductSlots

\* a cascade that goes on has moved to the next slot
CascadeAdvances ==
    \A c \in DOMAIN frames :
        (frames[c].pc = "cascade" /\ frames'[c].pc = "cascade") =>
            frames'[c].pos = frames[c].pos + 1

AllReturned == \A f \in Frames : f.pc \in {"done", "panicked"}

\* C24: every operation terminates for every input: a byte loop runs at most
\* W iterations, the pair loop of ebm_mul at most W * W, and the carry
\* cascade of ebm_mul stops, because the carry has become 0 or the position
\* has reached the end of the accumulator.
C24_Terminates ==
    /\ []LoopsBounded
    /\ [][CascadeAdvances]_vars
    /\ <>AllReturned

C24_Witness ==
    \E f \in Frames :
        /\ f.op = "mul"
        /\ f.size = BufferBytes
        /\ f.pc = "done"
        /\ f.iterations = BufferBytes

\* the byte pair (i2, j2) has been added and cascaded
Processed(f, i2, j2) ==
    /\ i2 < f.size
    /\ j2 < f.size
    /\ \/ f.pc \in {"copy", "done"}
       \/ i2 < f.i
       \/ i2 = f.i /\ j2 < f.j

PairProduct(f, i2, j2) ==
    IF Processed(f, i2, j2) THEN f.a[i2] * f.b[j2] ELSE 0

\* the sum of the products of the processed pairs of a call of at most two
\* bytes, a[i] * b[j] * 256^(i + j), as the pair of its low and its high 16
\* bits
ProcessedSum(f) ==
    LET low == PairProduct(f, 0, 0)
                   + 256 * (PairProduct(f, 0, 1) + PairProduct(f, 1, 0))
    IN  <<low % 65536, (low \div 65536) + PairProduct(f, 1, 1)>>

\* the value of the accumulator, split the same way
AccumulatorSum(f) ==
    <<f.partial_products[0] + 256 * f.partial_products[1],
      f.partial_products[2] + 256 * f.partial_products[3]>>

\* C28: after each byte pair of ebm_mul has been added and cascaded every
\* slot of the accumulator is in 0..255 and the slots encode the sum of the
\* products of the pairs processed so far, and the cascade never reaches the
\* end of the 128 slots with a carry left, up to the width of 64 bytes.
C28_MulAccumulator ==
    \A f \in Frames :
        (f.op = "mul" /\ f.pc \in {"loop", "copy", "done"}) =>
            /\ \A k \in DOMAIN f.partial_products :
                   f.partial_products[k] \in 0..255
            /\ ~f.carry_lost
            /\ f.size <= 2 =>
                   /\ AccumulatorSum(f) = ProcessedSum(f)
                   /\ \A k \in 4..(PartialProductSlots - 1) :
                          f.partial_products[k] = 0

C28_Witness ==
    \E f \in Frames :
        /\ f.op = "mul"
        /\ f.size = 2
        /\ f.pc = "loop"
        /\ f.i = 1
        /\ f.j = 1
        /\ f.partial_products[2] > 0

\* 256^k * bit for a carry or borrow bit
Weight(k, bit) == IF bit = 0 THEN 0 ELSE 256 ^ k

\* C29: the carry of ebm_add is 0 or 1 and each per-byte sum is in 0..511;
\* the borrow of ebm_sub is 0 or 1 and each per-byte difference is in
\* -256..255, so the 16-bit intermediates never overflow; after k iterations
\* the k result bytes with the carry (borrow) encode the sum (difference) of
\* the low k bytes of the operands.
C29_CarryAndBorrow ==
    \A f \in Frames :
        /\ (f.op = "add" /\ f.pc \in {"loop", "done"}) =>
               /\ f.carry \in {0, 1}
               /\ f.sum \in 0..511
               /\ Val(f.result_bytes, f.i) + Weight(f.i, f.carry)
                      = Val(f.a, f.i) + Val(f.b, f.i)
        /\ (f.op = "sub" /\ f.pc \in {"loop", "done"}) =>
               /\ f.borrow \in {0, 1}
               /\ f.diff \in -256..255
               /\ Val(f.result_bytes, f.i) - Weight(f.i, f.borrow)
                      = Val(f.a, f.i) - Val(f.b, f.i)

C29_Witness ==
    \E f \in Frames :
        /\ f.op = "sub"
        /\ f.size = 2
        /\ f.pc = "loop"
        /\ f.i = 1
        /\ f.borrow = 1
        /\ f.diff < 0

\* C30: no operation reads an operand byte or writes a result byte at or
\* beyond the width: every index into an operand buffer and into the result
\* buffer is in 0..W-1, the wrapped source index of ebm_left_shift and the
\* modular source index of the rotates included, and every index into the
\* accumulator of ebm_mul is in 0..127.
C30_IndicesWithinWidth ==
    \A f \in Frames :
        /\ f.reads \subseteq 0..(f.size - 1)
        /\ f.writes \subseteq 0..(f.size - 1)
        /\ f.slots \subseteq 0..(PartialProductSlots - 1)

C30_Witness ==
    \E f \in Frames :
        /\ f.op = "right_rotate"
        /\ f.size = 2
        /\ f.n = 9
        /\ f.pc = "done"
        /\ f.reads = {0, 1}
        /\ f.writes = {0, 1}

====
